---------------------------- MODULE Spec2Model ----------------------------
(***************************************************************************)
(* A model of part4_flags.py, the fatigue-flagging script: one run of the  *)
(* script from create_engine to "Analysis complete!".  The script is a     *)
(* straight line of blocks; each block is one action and pc names the      *)
(* block that runs next.                                                   *)
(*                                                                         *)
(* Numbers.  Measurement values are integers (think of hundredths: 17 for  *)
(* 0.17).  A median or a mean is an exact rational <<n, d>> with d > 0, in *)
(* lowest terms; NaN (a missing cell) is the empty tuple <<>>.  The        *)
(* thresholds 0.10, 0.15, 0.07 are held in percent, so that                *)
(* value < (1 - t) * b is decided exactly by cross-multiplication.  For    *)
(* the values used here the script's float64 arithmetic gives the same     *)
(* verdicts.                                                               *)
(*                                                                         *)
(* A second specification, SpecPart2, is one run of part2_cleaning.py from *)
(* the load of the table to the team coverage table.                       *)
(***************************************************************************)
EXTENDS Integers, Sequences, FiniteSets, TLC

\* The longest result set read_sql returns in the model.
MaxRows == 2

\* The most rows one athlete has for one metric in part2_cleaning's table.
MaxMeasurements == 5

----------------------------------------------------------------------------
(* Program constants                                                       *)

MRSI_BASELINE_DROP_THRESHOLD == 10
MRSI_TEAM_DEVIATION_THRESHOLD == 15
JH_BASELINE_DROP_THRESHOLD == 7
PNI_BASELINE_DROP_THRESHOLD == 7

METRIC_MRSI == "mRSI"
METRIC_JH == "Jump Height(m)"
METRIC_PNI == "Propulsive Net Impulse(N.s)"

COL_BASELINE_MRSI == "baseline_mRSI"
COL_BASELINE_JH == "baseline_jh"
COL_BASELINE_PNI == "baseline_pni"

COL_MRSI_FLAG == "mRSI_flag"
COL_MRSI_TEAM_FLAG == "mRSI_team_flag"
COL_JH_FLAG == "jh_flag"
COL_PNI_FLAG == "pni_flag"

\* The metrics the query selects: WHERE metric IN (...).
Metrics == {METRIC_MRSI, METRIC_JH, METRIC_PNI}

----------------------------------------------------------------------------
(* The rows the store can return                                           *)

\* Athlete names in ascending string order, as sort_values compares them.
Athletes == <<"A", "B">>

Teams == {"T1", "T2"}

\* The team an athlete usually tests with.
HomeTeam == [A |-> "T1", B |-> "T2"]

\* The text of the value column, with the number it stands for.  "N/A" is
\* text that is no number.
NumberText == [m10 |-> -10, p9 |-> 9, p11 |-> 11, p17 |-> 17, p23 |-> 23]

\* The value texts a metric is read with: every one for mRSI, the three
\* lowest numbers for the two output metrics.
RawValues ==
    (METRIC_MRSI :> (DOMAIN NumberText \cup {"N/A"}))
        @@ (METRIC_JH :> {"m10", "p9", "p11", "N/A"})
        @@ (METRIC_PNI :> {"m10", "p9", "p11", "N/A"})

\* A timestamp is <<year, month, day, hour>>; NaT, the missing or
\* unparseable timestamp after parse_dates, is <<>>.
NaT == <<>>

Session == <<2024, 2, 1, 9>>

OtherStamps == {<<2024, 2, 1, 15>>, <<2024, 1, 15, 9>>, NaT}

Row(p, t, ts, m, v) ==
    [playername |-> p, team |-> t, timestamp |-> ts, metric |-> m, value |-> v]

\* One session in which any athlete may give any value of any metric.
SessionRows ==
    UNION { { Row(Athletes[i], HomeTeam[Athletes[i]], Session, m, v) :
                i \in DOMAIN Athletes, v \in RawValues[m] } : m \in Metrics }

\* Athlete A's low mRSI result at other times: later the same day, on an
\* earlier day, or with no usable timestamp; recorded under either team.
RepeatRows ==
    { Row("A", t, ts, METRIC_MRSI, "m10") : t \in Teams, ts \in OtherStamps }

Rows == SessionRows \cup RepeatRows

----------------------------------------------------------------------------
(* Exact rationals                                                         *)

NaN == <<>>

IsNaN(x) == x = <<>>

Abs(n) == IF n < 0 THEN -n ELSE n

RECURSIVE Gcd(_, _)
Gcd(a, b) == IF b = 0 THEN a ELSE Gcd(b, a % b)

\* n / d in lowest terms, d > 0.
Rat(n, d) ==
    LET g == Gcd(Abs(n), d) IN <<n \div g, d \div g>>

\* v < (pct / 100) * r, for an integer v and a rational r.
LessThanPct(v, pct, r) == v * 100 * r[2] < pct * r[1]

\* v > (pct / 100) * r.
GreaterThanPct(v, pct, r) == v * 100 * r[2] > pct * r[1]

----------------------------------------------------------------------------
(* Sequences                                                               *)

RECURSIVE SelectRows(_, _)
\* The rows of s at which mask is TRUE, in order: df[mask].
SelectRows(s, mask) ==
    IF s = <<>> THEN <<>>
    ELSE (IF Head(mask) THEN <<Head(s)>> ELSE <<>>)
             \o SelectRows(Tail(s), Tail(mask))

RECURSIVE Insert(_, _)
Insert(x, sorted) ==
    IF sorted = <<>> THEN <<x>>
    ELSE IF x < Head(sorted) THEN <<x>> \o sorted
    ELSE <<Head(sorted)>> \o Insert(x, Tail(sorted))

RECURSIVE SortInts(_)
SortInts(s) == IF s = <<>> THEN <<>> ELSE Insert(Head(s), SortInts(Tail(s)))

RECURSIVE Sum(_)
Sum(s) == IF s = <<>> THEN 0 ELSE Head(s) + Sum(Tail(s))

Range(s) == { s[i] : i \in DOMAIN s }

----------------------------------------------------------------------------
(* State                                                                   *)

VARIABLES
    pc,               \* the block of the script that runs next
    engine,           \* "none", "open" (connection held) or "disposed"
    query_result,     \* the rows the store returned to read_sql
    df,               \* the DataFrame: a sequence of rows
    columns,          \* df.columns
    is_mrsi,          \* boolean masks over df's rows
    is_jh,
    is_pni,
    available_metrics,
    baseline_metrics, \* the pivot table: athlete -> column -> median or NaN
    team_avg_mRSI,    \* the mean of the mRSI values, or None
    flagged,          \* the rows of df with a flag set
    flagged_out,      \* the report (bound only when a row is flagged)
    table1,
    table2,
    stdout,           \* what the run has printed about rules and results
    defined,          \* the names among the above that the script has bound
    df_selected,        \* part2_cleaning: the rows of the selected metrics
    measurement_counts, \* part2_cleaning: one row per team, athlete, metric
    team_coverage       \* part2_cleaning: team -> the row of its coverage

vars == <<pc, engine, query_result, df, columns, is_mrsi, is_jh, is_pni, available_metrics,
          baseline_metrics, team_avg_mRSI, flagged, flagged_out, table1,
          table2, stdout, defined, df_selected, measurement_counts,
          team_coverage>>

\* What part4_flags.py never touches.
part2_only == <<df_selected, measurement_counts, team_coverage>>

None == <<>>

Init ==
    /\ pc = "create_engine"
    /\ engine = "none"
    /\ query_result = <<>>
    /\ df = <<>>
    /\ columns = {}
    /\ is_mrsi = <<>>
    /\ is_jh = <<>>
    /\ is_pni = <<>>
    /\ available_metrics = {}
    /\ baseline_metrics = <<>>
    /\ team_avg_mRSI = None
    /\ flagged = <<>>
    /\ flagged_out = <<>>
    /\ table1 = <<>>
    /\ table2 = <<>>
    /\ stdout = <<>>
    /\ defined = {}
    /\ df_selected = <<>>
    /\ measurement_counts = {}
    /\ team_coverage = <<>>

----------------------------------------------------------------------------
(* Database connection and data loading                                    *)

CreateEngine ==
    /\ pc = "create_engine"
    /\ engine' = "open"
    /\ pc' = "read_sql"
    /\ UNCHANGED part2_only
    /\ UNCHANGED <<query_result, df, columns, is_mrsi, is_jh, is_pni, available_metrics,
                   baseline_metrics, team_avg_mRSI, flagged, flagged_out,
                   table1, table2, stdout, defined>>

\* pd.read_sql returns the selected rows, in the store's order.
ReadSql ==
    /\ pc = "read_sql"
    /\ \E n \in 0..MaxRows : \E rows \in [1..n -> Rows] : query_result' = rows
    /\ df' = query_result'
    /\ columns' = {"playername", "team", "timestamp", "metric", "value"}
    /\ defined' = defined \cup {"df"}
    /\ pc' = "dispose"
    /\ UNCHANGED part2_only
    /\ UNCHANGED <<engine, is_mrsi, is_jh, is_pni, available_metrics,
                   baseline_metrics, team_avg_mRSI, flagged, flagged_out,
                   table1, table2, stdout>>

\* pd.read_sql raises (the connection fails, the query fails): the script
\* ends with the traceback, and nothing after the call runs.
ReadSqlRaises ==
    /\ pc = "read_sql"
    /\ pc' = "raised"
    /\ UNCHANGED part2_only
    /\ UNCHANGED <<query_result, engine, df, columns, is_mrsi, is_jh, is_pni,
                   available_metrics, baseline_metrics, team_avg_mRSI, flagged,
                   flagged_out, table1, table2, stdout, defined>>

Dispose ==
    /\ pc = "dispose"
    /\ engine' = "disposed"
    /\ pc' = "cleaning"
    /\ UNCHANGED part2_only
    /\ UNCHANGED <<query_result, df, columns, is_mrsi, is_jh, is_pni, available_metrics,
                   baseline_metrics, team_avg_mRSI, flagged, flagged_out,
                   table1, table2, stdout, defined>>

----------------------------------------------------------------------------
(* Data cleaning                                                           *)

\* pd.to_numeric(errors="coerce") of one cell: the number, or NaN.
ToNumeric(text) ==
    IF text \in DOMAIN NumberText THEN <<NumberText[text]>> ELSE NaN

RECURSIVE DropNa_FillZero(_)
\* A cleaning step that keeps a row whose value did not convert, as 0.
DropNa_FillZero(rows) ==
    IF rows = <<>> THEN <<>>
    ELSE LET r == Head(rows)
             n == ToNumeric(r.value)
         IN  (IF r.timestamp = NaT
              THEN <<>>
              ELSE <<[r EXCEPT !.value = IF IsNaN(n) THEN 0 ELSE n[1]]>>)
                 \o DropNa_FillZero(Tail(rows))

RECURSIVE DropNa(_)
\* Lines 120-124: drop the rows with a missing timestamp, make value
\* numeric, drop the rows whose value did not convert.
DropNa(rows) ==
    IF rows = <<>> THEN <<>>
    ELSE LET r == Head(rows)
             n == ToNumeric(r.value)
         IN  (IF r.timestamp = NaT \/ IsNaN(n)
              THEN <<>>
              ELSE <<[r EXCEPT !.value = n[1]]>>) \o DropNa(Tail(rows))

MetricMask(rows, m) == [i \in DOMAIN rows |-> rows[i].metric = m]

DataCleaning ==
    /\ pc = "cleaning"
    /\ df' = DropNa(df)
    /\ is_mrsi' = MetricMask(df', METRIC_MRSI)
    /\ is_jh' = MetricMask(df', METRIC_JH)
    /\ is_pni' = MetricMask(df', METRIC_PNI)
    /\ available_metrics' = { df'[i].metric : i \in DOMAIN df' }
    /\ defined' = defined \cup {"is_mrsi", "is_jh", "is_pni", "available_metrics"}
    /\ pc' = "baselines"
    /\ UNCHANGED part2_only
    /\ UNCHANGED <<query_result, engine, columns, baseline_metrics, team_avg_mRSI, flagged,
                   flagged_out, table1, table2, stdout>>

----------------------------------------------------------------------------
(* Baselines                                                               *)

\* The values of metric m that athlete p has in rows, in row order.
ValuesOf(rows, p, m) ==
    LET mask == [i \in DOMAIN rows |->
                    rows[i].playername = p /\ rows[i].metric = m]
        sel == SelectRows(rows, mask)
    IN  [i \in DOMAIN sel |-> sel[i].value]

\* A median that takes the upper of the two middle values.
Median_UpperMiddle(vals) ==
    LET s == SortInts(vals)
        n == Len(s)
    IN  IF n = 0 THEN NaN ELSE Rat(s[n \div 2 + 1], 1)

\* aggfunc='median': the middle value, or the mean of the two middle ones;
\* NaN for an empty group.
Median(vals) ==
    LET s == SortInts(vals)
        n == Len(s)
    IN  IF n = 0 THEN NaN
        ELSE IF n % 2 = 1 THEN Rat(s[(n + 1) \div 2], 1)
        ELSE Rat(s[n \div 2] + s[n \div 2 + 1], 2)

\* df.pivot_table(index='playername', columns='metric', values='value',
\* aggfunc='median'): a row per athlete in df, a column per metric in df
\* (no row and no column for an empty df).
PivotTable(rows) ==
    [p \in { rows[i].playername : i \in DOMAIN rows } |->
        [m \in { rows[i].metric : i \in DOMAIN rows } |->
            Median(ValuesOf(rows, p, m))]]

rename_mapping ==
    (METRIC_MRSI :> COL_BASELINE_MRSI) @@ (METRIC_JH :> COL_BASELINE_JH)
        @@ (METRIC_PNI :> COL_BASELINE_PNI)

\* The columns of a pivot table (none when it has no rows).
PivotColumns(pivot) == UNION { DOMAIN pivot[p] : p \in DOMAIN pivot }

\* baseline_metrics.rename(columns=existing_renames)
RenameColumns(pivot) ==
    [p \in DOMAIN pivot |->
        [c \in { IF m \in DOMAIN rename_mapping THEN rename_mapping[m] ELSE m :
                    m \in DOMAIN pivot[p] } |->
            LET m == CHOOSE k \in DOMAIN pivot[p] :
                        c = (IF k \in DOMAIN rename_mapping
                             THEN rename_mapping[k] ELSE k)
            IN  pivot[p][m]]]

\* df.merge(baseline_metrics, left_on='playername', right_index=True,
\* how='left'): every row keeps its place and gains the baseline columns of
\* its athlete (NaN when the athlete has no row in the pivot table).
Merge(rows, pivot) ==
    [i \in DOMAIN rows |->
        [c \in PivotColumns(pivot) |->
            IF rows[i].playername \in DOMAIN pivot
            THEN pivot[rows[i].playername][c] ELSE NaN] @@ rows[i]]

CalculateBaselines ==
    /\ pc = "baselines"
    /\ baseline_metrics' = RenameColumns(PivotTable(df))
    /\ df' = Merge(df, baseline_metrics')
    /\ columns' = columns \cup PivotColumns(baseline_metrics')
    /\ defined' = defined \cup {"baseline_metrics"}
    /\ pc' = "team_average"
    /\ UNCHANGED part2_only
    /\ UNCHANGED <<query_result, engine, is_mrsi, is_jh, is_pni, available_metrics,
                   team_avg_mRSI, flagged, flagged_out, table1, table2,
                   stdout>>

\* mask.sum(): how many rows the mask selects.
MaskSum(mask) == Cardinality({ i \in DOMAIN mask : mask[i] })

\* df[is_mrsi]['value'].mean()
Mean(rows) ==
    Rat(Sum([i \in DOMAIN rows |-> rows[i].value]), Len(rows))

TeamAverage ==
    /\ pc = "team_average"
    /\ team_avg_mRSI' =
          IF MaskSum(is_mrsi) > 0 THEN Mean(SelectRows(df, is_mrsi)) ELSE None
    /\ stdout' = IF MaskSum(is_mrsi) > 0 THEN stdout
                 ELSE Append(stdout, "Warning: No mRSI data available")
    /\ defined' = defined \cup {"team_avg_mRSI"}
    /\ pc' = "thresholds"
    /\ UNCHANGED part2_only
    /\ UNCHANGED <<query_result, engine, df, columns, is_mrsi, is_jh, is_pni,
                   available_metrics, baseline_metrics, flagged, flagged_out,
                   table1, table2>>

----------------------------------------------------------------------------
(* Flag thresholds                                                         *)

\* df[col] = vals
SetColumn(rows, col, vals) ==
    [i \in DOMAIN rows |-> (col :> vals[i]) @@ rows[i]]

Zeros(rows) == [i \in DOMAIN rows |-> 0]

\* A baseline-drop rule that is not restricted to the rows of its metric.
BaselineDrop_NoMask(rows, mask, col, threshold) ==
    [i \in DOMAIN rows |->
        IF /\ ~IsNaN(rows[i][col])
           /\ LessThanPct(rows[i].value, 100 - threshold, rows[i][col])
        THEN 1 ELSE 0]

\* np.where(mask & (df['value'] < (1 - threshold) * df[col]), 1, 0); a
\* comparison with NaN is False.
BaselineDrop(rows, mask, col, threshold) ==
    [i \in DOMAIN rows |->
        IF /\ mask[i]
           /\ ~IsNaN(rows[i][col])
           /\ LessThanPct(rows[i].value, 100 - threshold, rows[i][col])
        THEN 1 ELSE 0]

\* Whether a baseline-drop rule is evaluated: its baseline column exists and
\* its metric has rows.
Evaluated(cols, mask, col) == col \in cols /\ MaskSum(mask) > 0

\* A threshold 1 that also flags a value exactly 10% below the baseline.
Threshold1_AtLeast(rows, cols, mask) ==
    IF Evaluated(cols, mask, COL_BASELINE_MRSI)
    THEN [i \in DOMAIN rows |->
            IF /\ mask[i]
               /\ ~IsNaN(rows[i][COL_BASELINE_MRSI])
               /\ ~GreaterThanPct(rows[i].value,
                                  100 - MRSI_BASELINE_DROP_THRESHOLD,
                                  rows[i][COL_BASELINE_MRSI])
            THEN 1 ELSE 0]
    ELSE Zeros(rows)

\* Threshold 1: mRSI more than 10% below the athlete's baseline.
Threshold1(rows, cols, mask) ==
    IF Evaluated(cols, mask, COL_BASELINE_MRSI)
    THEN BaselineDrop(rows, mask, COL_BASELINE_MRSI,
                      MRSI_BASELINE_DROP_THRESHOLD)
    ELSE Zeros(rows)

Threshold2Evaluated(mask, avg) == MaskSum(mask) > 0 /\ avg # None

\* A threshold 2 that compares with the average of the row's own team.
Threshold2_PerTeam(rows, mask, avg) ==
    IF Threshold2Evaluated(mask, avg)
    THEN [i \in DOMAIN rows |->
            LET own == Mean(SelectRows(rows,
                          [j \in DOMAIN rows |->
                              mask[j] /\ rows[j].team = rows[i].team]))
            IN  IF /\ mask[i]
                   /\ \/ LessThanPct(rows[i].value,
                                     100 - MRSI_TEAM_DEVIATION_THRESHOLD, own)
                      \/ GreaterThanPct(rows[i].value,
                                     100 + MRSI_TEAM_DEVIATION_THRESHOLD, own)
                THEN 1 ELSE 0]
    ELSE Zeros(rows)

\* Threshold 2: mRSI more than 15% away from the average of all mRSI rows.
Threshold2(rows, mask, avg) ==
    IF Threshold2Evaluated(mask, avg)
    THEN [i \in DOMAIN rows |->
            IF /\ mask[i]
               /\ \/ LessThanPct(rows[i].value,
                                 100 - MRSI_TEAM_DEVIATION_THRESHOLD, avg)
                  \/ GreaterThanPct(rows[i].value,
                                    100 + MRSI_TEAM_DEVIATION_THRESHOLD, avg)
            THEN 1 ELSE 0]
    ELSE Zeros(rows)

\* Threshold 3: Jump Height more than 7% below the athlete's baseline.
Threshold3(rows, cols, mask) ==
    IF Evaluated(cols, mask, COL_BASELINE_JH)
    THEN BaselineDrop(rows, mask, COL_BASELINE_JH, JH_BASELINE_DROP_THRESHOLD)
    ELSE Zeros(rows)

\* Threshold 4: Propulsive Net Impulse more than 7% below the baseline.
Threshold4(rows, cols, mask) ==
    IF Evaluated(cols, mask, COL_BASELINE_PNI)
    THEN BaselineDrop(rows, mask, COL_BASELINE_PNI,
                      PNI_BASELINE_DROP_THRESHOLD)
    ELSE Zeros(rows)

\* A message that says "Applied" whether or not the rule was evaluated.
ThresholdMessage_Applied(evaluated, name, threshold) ==
    "Applied " \o name \o " threshold (" \o ToString(threshold) \o "%)"

\* The line each threshold block prints: "Applied ... (10%)" or
\* "Skipped ... (no data)".
ThresholdMessage(evaluated, name, threshold) ==
    IF evaluated
    THEN "Applied " \o name \o " threshold (" \o ToString(threshold) \o "%)"
    ELSE "Skipped " \o name \o " threshold (no data)"

ApplyFlagThresholds ==
    /\ pc = "thresholds"
    /\ df' = SetColumn(SetColumn(SetColumn(SetColumn(df,
                COL_MRSI_FLAG, Threshold1(df, columns, is_mrsi)),
                COL_MRSI_TEAM_FLAG, Threshold2(df, is_mrsi, team_avg_mRSI)),
                COL_JH_FLAG, Threshold3(df, columns, is_jh)),
                COL_PNI_FLAG, Threshold4(df, columns, is_pni))
    /\ columns' = columns \cup
          {COL_MRSI_FLAG, COL_MRSI_TEAM_FLAG, COL_JH_FLAG, COL_PNI_FLAG}
    /\ stdout' = stdout \o <<
          ThresholdMessage(Evaluated(columns, is_mrsi, COL_BASELINE_MRSI),
              "mRSI baseline drop", MRSI_BASELINE_DROP_THRESHOLD),
          ThresholdMessage(Threshold2Evaluated(is_mrsi, team_avg_mRSI),
              "mRSI team deviation", MRSI_TEAM_DEVIATION_THRESHOLD),
          ThresholdMessage(Evaluated(columns, is_jh, COL_BASELINE_JH),
              "Jump Height baseline drop", JH_BASELINE_DROP_THRESHOLD),
          ThresholdMessage(Evaluated(columns, is_pni, COL_BASELINE_PNI),
              "Propulsive Net Impulse baseline drop",
              PNI_BASELINE_DROP_THRESHOLD) >>
    /\ pc' = "report"
    /\ UNCHANGED part2_only
    /\ UNCHANGED <<query_result, engine, is_mrsi, is_jh, is_pni, available_metrics,
                   baseline_metrics, team_avg_mRSI, flagged, flagged_out,
                   table1, table2, defined>>

----------------------------------------------------------------------------
(* The flagged athletes report                                             *)

flag_cols == <<COL_MRSI_FLAG, COL_MRSI_TEAM_FLAG, COL_JH_FLAG, COL_PNI_FLAG>>

\* row.get(col, default)
Get(row, col, default) == IF col \in DOMAIN row THEN row[col] ELSE default

RECURSIVE Join(_, _)
\* sep.join(list)
Join(sep, list) ==
    IF list = <<>> THEN ""
    ELSE IF Len(list) = 1 THEN Head(list)
    ELSE Head(list) \o sep \o Join(sep, Tail(list))

\* The reason texts; the script's sign for "at least" is written >= here.
ReasonMrsi ==
    "mRSI drop >=" \o ToString(MRSI_BASELINE_DROP_THRESHOLD) \o "% vs baseline"
ReasonMrsiTeam ==
    "mRSI >" \o ToString(MRSI_TEAM_DEVIATION_THRESHOLD)
        \o "% from team average"
ReasonJh ==
    "Jump Height(m) drop >=" \o ToString(JH_BASELINE_DROP_THRESHOLD)
        \o "% vs baseline"
ReasonPni ==
    "Propulsive Net Impulse(N.s) drop >="
        \o ToString(PNI_BASELINE_DROP_THRESHOLD) \o "% vs baseline"

\* A reason builder that reads the Jump Height flag for the last reason.
build_flag_reason_WrongColumn(row) ==
    LET reasons ==
            (IF Get(row, COL_MRSI_FLAG, 0) = 1 THEN <<ReasonMrsi>> ELSE <<>>)
         \o (IF Get(row, COL_MRSI_TEAM_FLAG, 0) = 1
             THEN <<ReasonMrsiTeam>> ELSE <<>>)
         \o (IF Get(row, COL_JH_FLAG, 0) = 1 THEN <<ReasonJh>> ELSE <<>>)
         \o (IF Get(row, COL_JH_FLAG, 0) = 1 THEN <<ReasonPni>> ELSE <<>>)
    IN  Join("; ", reasons)

build_flag_reason(row) ==
    LET reasons ==
            (IF Get(row, COL_MRSI_FLAG, 0) = 1 THEN <<ReasonMrsi>> ELSE <<>>)
         \o (IF Get(row, COL_MRSI_TEAM_FLAG, 0) = 1
             THEN <<ReasonMrsiTeam>> ELSE <<>>)
         \o (IF Get(row, COL_JH_FLAG, 0) = 1 THEN <<ReasonJh>> ELSE <<>>)
         \o (IF Get(row, COL_PNI_FLAG, 0) = 1 THEN <<ReasonPni>> ELSE <<>>)
    IN  Join("; ", reasons)

\* df[flag_cols].sum(axis=1) of one row
FlagSum(row) == Sum([k \in DOMAIN flag_cols |-> row[flag_cols[k]]])

\* A number in decimal, zero-padded to width digits, as character codes.
RECURSIVE Digits(_, _)
Digits(n, width) ==
    IF width = 0 THEN <<>>
    ELSE Append(Digits(n \div 10, width - 1), 48 + (n % 10))

\* timestamp.dt.date.astype(str): "YYYY-MM-DD", as character codes ("-" is
\* 45, "0" is 48).  The hour is dropped.
DateStr(ts) ==
    Digits(ts[1], 4) \o <<45>> \o Digits(ts[2], 2) \o <<45>> \o Digits(ts[3], 2)

\* The five columns of the report, from a flagged row.
OutputRow(row) ==
    [playername |-> row.playername, team |-> row.team,
     flag_reason |-> row.flag_reason, metric_value |-> row.value,
     last_test_date |-> DateStr(row.timestamp)]

\* A report that keeps every row.
DropDuplicates_KeepAll(rows) == rows

RECURSIVE DropDuplicates(_)
\* drop_duplicates(): the first of each group of equal rows stays.
DropDuplicates(rows) ==
    IF rows = <<>> THEN <<>>
    ELSE LET front == DropDuplicates(SubSeq(rows, 1, Len(rows) - 1))
             last == rows[Len(rows)]
         IN  IF last \in Range(front) THEN front ELSE Append(front, last)

\* The place of a name in the ascending order of the athletes' names.
NameRank(p) == CHOOSE i \in DOMAIN Athletes : Athletes[i] = p

RECURSIVE StrLess(_, _)
\* a < b for strings given as character codes.
StrLess(a, b) ==
    IF b = <<>> THEN FALSE
    ELSE IF a = <<>> THEN TRUE
    ELSE IF Head(a) # Head(b) THEN Head(a) < Head(b)
    ELSE StrLess(Tail(a), Tail(b))

\* An order that looks at the athlete's name only.
KeyLess_NameOnly(a, b) == NameRank(a.playername) < NameRank(b.playername)

\* The order of sort_values(['playername', 'last_test_date']).
KeyLess(a, b) ==
    \/ NameRank(a.playername) < NameRank(b.playername)
    \/ /\ a.playername = b.playername
       /\ StrLess(a.last_test_date, b.last_test_date)

RECURSIVE InsertByKey(_, _)
\* x goes before the first row whose key is greater than x's.
InsertByKey(x, sorted) ==
    IF sorted = <<>> THEN <<x>>
    ELSE IF KeyLess(x, Head(sorted)) THEN <<x>> \o sorted
    ELSE <<Head(sorted)>> \o InsertByKey(x, Tail(sorted))

RECURSIVE SortValues(_)
\* sort_values on two keys: rows with equal keys keep their order.
SortValues(rows) ==
    IF rows = <<>> THEN <<>>
    ELSE InsertByKey(rows[Len(rows)],
                     SortValues(SubSeq(rows, 1, Len(rows) - 1)))

\* flagged[col].sum()
ColumnSum(rows, col) == Sum([i \in DOMAIN rows |-> rows[i][col]])

BuildReport ==
    /\ pc = "report"
    /\ LET sel == SelectRows(df, [i \in DOMAIN df |-> FlagSum(df[i]) > 0])
       IN  IF Len(sel) > 0
           THEN /\ flagged' = SetColumn(sel, "flag_reason",
                        [i \in DOMAIN sel |-> build_flag_reason(sel[i])])
                /\ flagged_out' = SortValues(DropDuplicates(
                        [i \in DOMAIN flagged' |-> OutputRow(flagged'[i])]))
                /\ defined' = defined \cup {"flagged", "flagged_out"}
                /\ stdout' = Append(stdout,
                        "Saved " \o ToString(Len(flagged_out'))
                            \o " flagged records to part4_flagged_athletes.csv")
           ELSE /\ flagged' = sel
                /\ defined' = defined \cup {"flagged"}
                /\ stdout' = Append(stdout,
                        "No athletes currently meet flag criteria")
                /\ UNCHANGED flagged_out
    /\ pc' = "table1"
    /\ UNCHANGED part2_only
    /\ UNCHANGED <<query_result, engine, df, columns, is_mrsi, is_jh, is_pni,
                   available_metrics, baseline_metrics, team_avg_mRSI, table1,
                   table2>>

----------------------------------------------------------------------------
(* Summary tables                                                          *)

\* sorted(available_metrics): capitals sort before small letters.
SortedMetrics ==
    <<METRIC_JH, METRIC_PNI, METRIC_MRSI>>

Table1 ==
    /\ pc = "table1"
    /\ table1' = <<
          <<"Total CMJ records analyzed", ToString(Len(df))>>,
          <<"Unique athletes",
            ToString(Cardinality({ df[i].playername : i \in DOMAIN df }))>>,
          <<"Unique teams",
            ToString(Cardinality({ df[i].team : i \in DOMAIN df }))>>,
          <<"Available CMJ metrics",
            Join(", ", SelectRows(SortedMetrics,
                    [k \in DOMAIN SortedMetrics |->
                        SortedMetrics[k] \in available_metrics]))>>,
          <<"Baseline method", "Median of all available tests per athlete">> >>
    /\ defined' = defined \cup {"table1"}
    /\ pc' = "table2"
    /\ UNCHANGED part2_only
    /\ UNCHANGED <<query_result, engine, df, columns, is_mrsi, is_jh, is_pni,
                   available_metrics, baseline_metrics, team_avg_mRSI, flagged,
                   flagged_out, table2, stdout>>

\* The "Number of Flagged Instances" column of Table 2, beside its labels.
Table2Rows(flg, out) ==
    << <<"mRSI baseline drop (>=10% vs baseline)",
         ColumnSum(flg, COL_MRSI_FLAG)>>,
       <<"mRSI team deviation (>15% from team average)",
         ColumnSum(flg, COL_MRSI_TEAM_FLAG)>>,
       <<"Jump Height baseline drop (>=7% vs baseline)",
         ColumnSum(flg, COL_JH_FLAG)>>,
       <<"Propulsive Net Impulse drop (>=7% vs baseline)",
         ColumnSum(flg, COL_PNI_FLAG)>>,
       <<"Total flagged tests", Len(out)>>,
       <<"Unique athletes flagged",
         Cardinality({ out[i].playername : i \in DOMAIN out })>> >>

\* Table 2 is built and printed, and the run ends with "Analysis complete!".
Table2 ==
    /\ pc = "table2"
    /\ "flagged_out" \in defined
    /\ table2' = Table2Rows(flagged, flagged_out)
    /\ defined' = defined \cup {"table2"}
    /\ stdout' = Append(stdout, "Analysis complete!")
    /\ pc' = "done"
    /\ UNCHANGED part2_only
    /\ UNCHANGED <<query_result, engine, df, columns, is_mrsi, is_jh, is_pni,
                   available_metrics, baseline_metrics, team_avg_mRSI, flagged,
                   flagged_out, table1>>

\* No row was flagged, so the name flagged_out was never bound: building
\* Table 2 raises NameError and the script ends there.
Table2Raises ==
    /\ pc = "table2"
    /\ "flagged_out" \notin defined
    /\ pc' = "raised"
    /\ UNCHANGED part2_only
    /\ UNCHANGED <<query_result, engine, df, columns, is_mrsi, is_jh, is_pni,
                   available_metrics, baseline_metrics, team_avg_mRSI, flagged,
                   flagged_out, table1, table2, stdout, defined>>

----------------------------------------------------------------------------

Next ==
    \/ CreateEngine
    \/ ReadSql
    \/ ReadSqlRaises
    \/ Dispose
    \/ DataCleaning
    \/ CalculateBaselines
    \/ TeamAverage
    \/ ApplyFlagThresholds
    \/ BuildReport
    \/ Table1
    \/ Table2
    \/ Table2Raises

Spec == Init /\ [][Next]_vars

----------------------------------------------------------------------------
(* part2_cleaning.py: athletes with 5 or more measurements per team.  The  *)
(* coverage table reads the columns team, playername and metric only, so   *)
(* a row of the table is held as these three columns.                      *)

SELECTED_METRICS ==
    {"Jump Height(m)", "Peak Propulsive Force(N)", "Peak Velocity(m/s)",
     "Propulsive Net Impulse(N.s)", "mRSI"}

\* The kinds of row the table can hold: athletes A and B of team T1 and
\* athlete C of team T2; "Peak Power(W)" is a metric that is not selected.
TableRows ==
    << [team |-> "T1", playername |-> "A", metric |-> "Jump Height(m)"],
       [team |-> "T1", playername |-> "A", metric |-> "mRSI"],
       [team |-> "T1", playername |-> "A", metric |-> "Peak Power(W)"],
       [team |-> "T1", playername |-> "B", metric |-> "Jump Height(m)"],
       [team |-> "T2", playername |-> "C", metric |-> "mRSI"] >>

RECURSIVE TableOf(_, _)
\* The table with counts[k] rows of kind k, for the kinds k..Len(TableRows).
TableOf(counts, k) ==
    IF k > Len(TableRows) THEN <<>>
    ELSE [j \in 1..counts[k] |-> TableRows[k]] \o TableOf(counts, k + 1)

\* What part2_cleaning.py never touches.
part4_only ==
    <<query_result, columns, is_mrsi, is_jh, is_pni, available_metrics,
      baseline_metrics, team_avg_mRSI, flagged, flagged_out, table1, table2,
      stdout, defined>>

Part2Init ==
    /\ pc = "part2_load"
    /\ engine = "none"
    /\ query_result = <<>>
    /\ df = <<>>
    /\ columns = {}
    /\ is_mrsi = <<>>
    /\ is_jh = <<>>
    /\ is_pni = <<>>
    /\ available_metrics = {}
    /\ baseline_metrics = <<>>
    /\ team_avg_mRSI = None
    /\ flagged = <<>>
    /\ flagged_out = <<>>
    /\ table1 = <<>>
    /\ table2 = <<>>
    /\ stdout = <<>>
    /\ defined = {}
    /\ df_selected = <<>>
    /\ measurement_counts = {}
    /\ team_coverage = <<>>

\* engine = create_engine(...); df = pd.read_sql(...); the conversions of
\* timestamp and value change no row's team, playername or metric.
LoadData ==
    /\ pc = "part2_load"
    /\ \E counts \in [DOMAIN TableRows -> 0..MaxMeasurements] :
          df' = TableOf(counts, 1)
    /\ engine' = "open"
    /\ pc' = "part2_select"
    /\ UNCHANGED part2_only
    /\ UNCHANGED part4_only

\* df_selected = df[df["metric"].isin(SELECTED_METRICS)].copy()
SelectMetrics ==
    /\ pc = "part2_select"
    /\ df_selected' =
          SelectRows(df, [i \in DOMAIN df |-> df[i].metric \in SELECTED_METRICS])
    /\ pc' = "part2_counts"
    /\ UNCHANGED <<engine, df, measurement_counts, team_coverage>>
    /\ UNCHANGED part4_only

\* groupby(["team", "playername", "metric"]).size().reset_index(...) with
\* the column has_5_or_more: one row per group that has rows.  The rows of a
\* group table have different keys, so the table is held as a set.
MeasurementCountsOf(rows) ==
    { [team |-> rows[i].team, playername |-> rows[i].playername,
       metric |-> rows[i].metric,
       num_measurements |->
           Cardinality({ j \in DOMAIN rows :
               /\ rows[j].team = rows[i].team
               /\ rows[j].playername = rows[i].playername
               /\ rows[j].metric = rows[i].metric }),
       has_5_or_more |->
           Cardinality({ j \in DOMAIN rows :
               /\ rows[j].team = rows[i].team
               /\ rows[j].playername = rows[i].playername
               /\ rows[j].metric = rows[i].metric }) >= 5] :
        i \in DOMAIN rows }

MeasurementCounts ==
    /\ pc = "part2_counts"
    /\ measurement_counts' = MeasurementCountsOf(df_selected)
    /\ pc' = "part2_coverage"
    /\ UNCHANGED <<engine, df, df_selected, team_coverage>>
    /\ UNCHANGED part4_only

\* measurement_counts.groupby("team").agg(total_athletes = nunique of
\* playername, athletes_with_5plus = sum of has_5_or_more), then
\* percent_athletes_with_5plus = athletes_with_5plus / total_athletes * 100.
\* The sum of a boolean column is the number of its rows that are True.
TeamCoverageOf(counts) ==
    [t \in { r.team : r \in counts } |->
        LET total_athletes ==
                Cardinality({ r.playername : r \in { q \in counts : q.team = t } })
            athletes_with_5plus ==
                Cardinality({ r \in counts : r.team = t /\ r.has_5_or_more })
        IN  [total_athletes |-> total_athletes,
             athletes_with_5plus |-> athletes_with_5plus,
             percent_athletes_with_5plus |->
                 Rat(athletes_with_5plus * 100, total_athletes)]]

TeamCoverage ==
    /\ pc = "part2_coverage"
    /\ team_coverage' = TeamCoverageOf(measurement_counts)
    /\ pc' = "part2_done"
    /\ UNCHANGED <<engine, df, df_selected, measurement_counts>>
    /\ UNCHANGED part4_only

Part2Next ==
    \/ LoadData
    \/ SelectMetrics
    \/ MeasurementCounts
    \/ TeamCoverage

SpecPart2 == Part2Init /\ [][Part2Next]_vars

----------------------------------------------------------------------------
(* Properties.  A property of "the observations" is stated of df once the  *)
(* block that sets the column has run; medians and means are recomputed    *)
(* here from the rows' values by counting, never read from the operators   *)
(* above.                                                                  *)

ThresholdsApplied == COL_MRSI_FLAG \in columns

Ended == pc \in {"done", "raised"}

\* The rows of df that are athlete p's observations of metric m.
Obs(p, m) ==
    { i \in DOMAIN df : df[i].playername = p /\ df[i].metric = m }

\* The k-th smallest value among the rows I of df (k in 1..|I|).
OrderStat(I, k) ==
    CHOOSE v \in { df[i].value : i \in I } :
        /\ Cardinality({ i \in I : df[i].value < v }) < k
        /\ k <= Cardinality({ i \in I : df[i].value <= v })

\* Twice the median of the values of the rows I of df (I not empty).
TwiceMedian(I) ==
    LET n == Cardinality(I)
    IN  IF n % 2 = 1 THEN 2 * OrderStat(I, (n + 1) \div 2)
        ELSE OrderStat(I, n \div 2) + OrderStat(I, n \div 2 + 1)

\* The rational r is half of the integer twice.
IsHalfOf(r, twice) == ~IsNaN(r) /\ 2 * r[1] = twice * r[2]

C2_NoFlagsStillReports ==
    (Ended /\ "flagged" \in defined /\ flagged = <<>>) =>
        /\ pc = "done"
        /\ {"flagged_out", "table1", "table2"} \subseteq defined
        /\ flagged_out = <<>>
        /\ \A k \in DOMAIN table2 : table2[k][2] = 0

\* The descriptions of the rules whose flag is set on a row, in the fixed
\* order of the rules, joined.
RuleOrder ==
    << <<COL_MRSI_FLAG, ReasonMrsi>>, <<COL_MRSI_TEAM_FLAG, ReasonMrsiTeam>>,
       <<COL_JH_FLAG, ReasonJh>>, <<COL_PNI_FLAG, ReasonPni>> >>

TriggeredReasons(row) ==
    LET fired == SelectRows(RuleOrder,
                    [k \in DOMAIN RuleOrder |-> row[RuleOrder[k][1]] = 1])
    IN  Join("; ", [k \in DOMAIN fired |-> fired[k][2]])

\* Report row out is the row of observation obs.
IsRowOf(out, obs) ==
    /\ out.playername = obs.playername
    /\ out.team = obs.team
    /\ out.metric_value = obs.value
    /\ out.last_test_date = DateStr(obs.timestamp)
    /\ out.flag_reason = TriggeredReasons(obs)

\* C3: every row of the report has a non-empty flag_reason that lists
\* exactly the descriptions of the rules whose flag is set on its
\* observation, once each, in the fixed rule order; and every observation
\* with a flag set has its row.
C3_FlagReasonListsTriggeredRules ==
    "flagged_out" \in defined =>
        /\ \A k \in DOMAIN flagged_out :
              /\ flagged_out[k].flag_reason # ""
              /\ \E i \in DOMAIN df :
                    FlagSum(df[i]) > 0 /\ IsRowOf(flagged_out[k], df[i])
        /\ \A i \in DOMAIN df :
              FlagSum(df[i]) > 0 =>
                  \E k \in DOMAIN flagged_out : IsRowOf(flagged_out[k], df[i])

\* A report with a row that carries two reasons and a row that carries the
\* Propulsive Net Impulse reason alone.
C3_Witness ==
    /\ "flagged_out" \in defined
    /\ \E k, l \in DOMAIN flagged_out :
          /\ flagged_out[k].flag_reason = ReasonMrsi \o "; " \o ReasonMrsiTeam
          /\ flagged_out[l].flag_reason = ReasonPni

\* C4: a run that has ended, normally or with an error, no longer holds the
\* store connection.
C4_ConnectionReleasedOnEveryExit ==
    Ended => engine # "open"

\* The rules in the order of RuleOrder: the name each prints, its threshold
\* and the metric it is about.
RuleNames ==
    <<"mRSI baseline drop", "mRSI team deviation", "Jump Height baseline drop",
      "Propulsive Net Impulse baseline drop">>

RuleThresholds ==
    <<MRSI_BASELINE_DROP_THRESHOLD, MRSI_TEAM_DEVIATION_THRESHOLD,
      JH_BASELINE_DROP_THRESHOLD, PNI_BASELINE_DROP_THRESHOLD>>

RuleMetric == <<METRIC_MRSI, METRIC_MRSI, METRIC_JH, METRIC_PNI>>

SkippedLine(k) == "Skipped " \o RuleNames[k] \o " threshold (no data)"

AppliedLine(k) ==
    "Applied " \o RuleNames[k] \o " threshold ("
        \o ToString(RuleThresholds[k]) \o "%)"

\* The working set holds no observation of metric m.
Absent(m) == \A i \in DOMAIN df : df[i].metric # m

\* Every flag_reason that names none of the rules in K.
ReasonsWithout(K) ==
    { Join("; ", LET sel == SelectRows(RuleOrder,
                              [k \in DOMAIN RuleOrder |-> k \in S])
                 IN  [k \in DOMAIN sel |-> sel[k][2]]) :
        S \in SUBSET (DOMAIN RuleOrder \ K) }

\* C5: when a metric has no observation in the working set, each rule about
\* that metric is reported as skipped (and not as applied), sets no flag, and
\* no row of the report carries its description.
C5_AbsentMetricRulesSkipped ==
    ThresholdsApplied =>
        \A k \in DOMAIN RuleOrder :
            Absent(RuleMetric[k]) =>
                /\ SkippedLine(k) \in Range(stdout)
                /\ AppliedLine(k) \notin Range(stdout)
                /\ \A i \in DOMAIN df : df[i][RuleOrder[k][1]] = 0
                /\ "flagged_out" \in defined =>
                      LET allowed == ReasonsWithout({k})
                      IN  \A r \in DOMAIN flagged_out :
                              flagged_out[r].flag_reason \in allowed

\* A finished run whose working set has no Jump Height observation (the one
\* that was read did not convert) and whose report is not empty.
C5_Witness ==
    /\ pc = "done"
    /\ Absent(METRIC_JH)
    /\ \E i \in DOMAIN query_result : query_result[i].metric = METRIC_JH
    /\ flagged_out # <<>>

\* C6: in Table 2 the entry of a rule that was skipped because its metric is
\* absent differs from the entry of a rule that was evaluated and flagged
\* nothing.
C6_SkippedRuleDistinctInTable2 ==
    pc = "done" =>
        \A k1, k2 \in DOMAIN RuleOrder :
            ( /\ Absent(RuleMetric[k1])
              /\ ~Absent(RuleMetric[k2])
              /\ \A i \in DOMAIN df : df[i][RuleOrder[k2][1]] = 0 )
                => table2[k1][2] # table2[k2][2]

\* C7: no two rows of the report are equal in all five columns.
C7_ReportHasNoDuplicateRows ==
    "flagged_out" \in defined =>
        \A k, l \in DOMAIN flagged_out :
            k # l => flagged_out[k] # flagged_out[l]

\* Two flagged measurements of one athlete, taken at different times of the
\* same day with the same value, are one row of the report.
C7_Witness ==
    /\ "flagged_out" \in defined
    /\ Len(flagged_out) = 1
    /\ \E i, j \in DOMAIN flagged :
          /\ i # j
          /\ flagged[i].timestamp # flagged[j].timestamp
          /\ OutputRow(flagged[i]) = OutputRow(flagged[j])

\* The sum and the number of all mRSI values of the working set.
MrsiSum ==
    Sum([i \in DOMAIN df |->
            IF df[i].metric = METRIC_MRSI THEN df[i].value ELSE 0])

MrsiCount == Cardinality({ i \in DOMAIN df : df[i].metric = METRIC_MRSI })

\* C8: an observation carries the team-deviation flag if and only if it is
\* an mRSI observation whose value is below 0.85 x R or above 1.15 x R, R
\* being the mean of all mRSI values of every athlete and team
\* (v < 0.85 * S / n  <=>  100 * n * v < 85 * S).
C8_TeamFlagIffOutside15PctOfGlobalMean ==
    COL_MRSI_TEAM_FLAG \in columns =>
        LET n == MrsiCount
            S == MrsiSum
        IN  \A i \in DOMAIN df :
                df[i][COL_MRSI_TEAM_FLAG] = 1
                    <=> /\ df[i].metric = METRIC_MRSI
                        /\ \/ 100 * n * df[i].value < 85 * S
                           \/ 100 * n * df[i].value > 115 * S

\* Two mRSI observations of different teams, one exactly at 0.85 x R and the
\* other exactly at 1.15 x R, neither flagged.
C8_Witness ==
    /\ COL_MRSI_TEAM_FLAG \in columns
    /\ \E i, j \in DOMAIN df :
          /\ df[i].metric = METRIC_MRSI /\ df[j].metric = METRIC_MRSI
          /\ df[i].team # df[j].team
          /\ MrsiSum > 0
          /\ 100 * MrsiCount * df[i].value = 85 * MrsiSum
          /\ 100 * MrsiCount * df[j].value = 115 * MrsiSum
          /\ df[i][COL_MRSI_TEAM_FLAG] = 0
          /\ df[j][COL_MRSI_TEAM_FLAG] = 0

\* A record of the query result with a timestamp and a value that is a
\* number.
Usable(r) == r.timestamp # NaT /\ r.value \in DOMAIN NumberText

Kept ==
    SelectRows(query_result,
               [i \in DOMAIN query_result |-> Usable(query_result[i])])

\* C9: normalization drops exactly the records without a usable value or
\* timestamp and keeps every other record, in order, without ending the run;
\* the baselines are the medians and the team reference is the mean of the
\* kept records alone, and every row of the report comes from a kept record.
C9_UnusableRecordsDroppedOthersKept ==
    /\ (pc = "raised" /\ "df" \in defined) => "table1" \in defined
    /\ "is_mrsi" \in defined =>
          LET kept == Kept
          IN  /\ Len(df) = Len(kept)
              /\ \A i \in DOMAIN df :
                    /\ df[i].playername = kept[i].playername
                    /\ df[i].team = kept[i].team
                    /\ df[i].timestamp = kept[i].timestamp
                    /\ df[i].metric = kept[i].metric
                    /\ df[i].value = NumberText[kept[i].value]
    /\ "baseline_metrics" \in defined =>
          \A q \in DOMAIN baseline_metrics, m \in Metrics :
              rename_mapping[m] \in DOMAIN baseline_metrics[q] =>
                  IF Obs(q, m) = {}
                  THEN IsNaN(baseline_metrics[q][rename_mapping[m]])
                  ELSE IsHalfOf(baseline_metrics[q][rename_mapping[m]],
                                TwiceMedian(Obs(q, m)))
    /\ "team_avg_mRSI" \in defined =>
          LET n == MrsiCount
          IN  IF n = 0 THEN team_avg_mRSI = None
              ELSE /\ team_avg_mRSI # None
                   /\ team_avg_mRSI[1] * n = MrsiSum * team_avg_mRSI[2]
    /\ "flagged_out" \in defined =>
          LET kept == Kept
          IN  \A k \in DOMAIN flagged_out :
                  \E i \in DOMAIN kept :
                      /\ flagged_out[k].playername = kept[i].playername
                      /\ flagged_out[k].team = kept[i].team
                      /\ flagged_out[k].metric_value = NumberText[kept[i].value]
                      /\ flagged_out[k].last_test_date
                            = DateStr(kept[i].timestamp)

\* A finished run that read a record with the value "N/A" and a usable
\* record, and reports the usable one.
C9_Witness ==
    /\ pc = "done"
    /\ \E i \in DOMAIN query_result : query_result[i].value = "N/A"
    /\ Len(df) = 1
    /\ Len(flagged_out) = 1

\* C10: an athlete with observations of a metric has the median of those
\* values as baseline (for an even count the mean of the two middle values),
\* in the pivot table and on each of the athlete's rows; an athlete with no
\* observation of a metric has no baseline for it (no entry, or NaN) and no
\* row of that athlete carries the flag of that metric's baseline rule.
C10_BaselineIsMedianOrAbsent ==
    "baseline_metrics" \in defined =>
        \A q \in Range(Athletes), m \in Metrics :
            LET c == rename_mapping[m]
                mine == { i \in DOMAIN df : df[i].playername = q }
            IN  IF Obs(q, m) # {}
                THEN /\ q \in DOMAIN baseline_metrics
                     /\ c \in DOMAIN baseline_metrics[q]
                     /\ IsHalfOf(baseline_metrics[q][c], TwiceMedian(Obs(q, m)))
                     /\ \A i \in mine : df[i][c] = baseline_metrics[q][c]
                ELSE /\ \/ q \notin DOMAIN baseline_metrics
                        \/ c \notin DOMAIN baseline_metrics[q]
                        \/ IsNaN(baseline_metrics[q][c])
                     /\ ThresholdsApplied =>
                           \A i \in mine, k \in {1, 3, 4} :
                               RuleMetric[k] = m => df[i][RuleOrder[k][1]] = 0

\* Athlete A has two different mRSI values, whose median is half their sum,
\* an odd sum, and has no Jump Height value; athlete B has no mRSI value.
C10_Witness ==
    /\ ThresholdsApplied
    /\ \E i, j \in Obs("A", METRIC_MRSI) :
          /\ df[i].value < df[j].value
          /\ baseline_metrics["A"][COL_BASELINE_MRSI]
                = <<df[i].value + df[j].value, 2>>
    /\ Obs("A", METRIC_JH) = {}
    /\ Obs("B", METRIC_MRSI) = {}

\* The calendar date <<year, month, day>> that a "YYYY-MM-DD" text, given
\* as character codes, stands for.
DateOfText(t) ==
    << (t[1] - 48) * 1000 + (t[2] - 48) * 100 + (t[3] - 48) * 10 + (t[4] - 48),
       (t[6] - 48) * 10 + (t[7] - 48),
       (t[9] - 48) * 10 + (t[10] - 48) >>

\* Date a is not after date b.
NotAfter(a, b) ==
    \/ a[1] < b[1]
    \/ a[1] = b[1] /\ a[2] < b[2]
    \/ a[1] = b[1] /\ a[2] = b[2] /\ a[3] <= b[3]

\* C11: the rows of the report are in ascending order of the athlete's name
\* and, for one athlete, in chronological order of the calendar date, which
\* is the date part of a timestamp of that athlete's flagged observations.
C11_ReportSortedByAthleteThenDate ==
    "flagged_out" \in defined =>
        /\ \A k \in DOMAIN flagged_out :
              \E i \in DOMAIN flagged :
                  /\ flagged[i].playername = flagged_out[k].playername
                  /\ SubSeq(flagged[i].timestamp, 1, 3)
                        = DateOfText(flagged_out[k].last_test_date)
        /\ \A k, l \in DOMAIN flagged_out :
              k < l =>
                  /\ NameRank(flagged_out[k].playername)
                        <= NameRank(flagged_out[l].playername)
                  /\ flagged_out[k].playername = flagged_out[l].playername
                        => NotAfter(DateOfText(flagged_out[k].last_test_date),
                                    DateOfText(flagged_out[l].last_test_date))

\* Two flagged observations of one athlete read latest first (1 February
\* before 15 January), reported earliest first.
C11_Witness ==
    /\ "flagged_out" \in defined
    /\ Len(flagged) = 2 /\ Len(flagged_out) = 2
    /\ flagged[1].playername = flagged[2].playername
    /\ flagged[1].timestamp[2] > flagged[2].timestamp[2]
    /\ flagged[1].timestamp[3] < flagged[2].timestamp[3]
    /\ DateOfText(flagged_out[1].last_test_date)
          = SubSeq(flagged[2].timestamp, 1, 3)
    /\ DateOfText(flagged_out[2].last_test_date)
          = SubSeq(flagged[1].timestamp, 1, 3)

\* The rules that compare an observation with its athlete's own baseline.
BaselineRules == {1, 3, 4}

\* C12: an observation that is at least the rule's threshold below its
\* athlete's (positive) baseline, the observation exactly at the threshold
\* included (mRSI = 0.90 x baseline, Jump Height or Propulsive Net Impulse =
\* 0.93 x baseline), carries the flag of its baseline-drop rule.
C12_DropOfAtLeastThresholdFlagged ==
    ThresholdsApplied =>
        \A i \in DOMAIN df : \A k \in BaselineRules :
            df[i].metric = RuleMetric[k] =>
                LET twice == TwiceMedian(Obs(df[i].playername, df[i].metric))
                IN  ( /\ twice > 0
                      /\ 200 * df[i].value <= (100 - RuleThresholds[k]) * twice )
                        => df[i][RuleOrder[k][1]] = 1

\* The per-rule counts (rows 1 to 4) and the total (row 5) of Table 2.
Table2Count(k) == table2[k][2]

\* C13: in Table 2, whenever it is produced, each per-rule count is at most
\* the total of flagged tests and the total is at most the sum of the four
\* per-rule counts.
C13_Table2CountsConsistent ==
    pc = "done" =>
        /\ \A k \in 1..4 : Table2Count(k) <= Table2Count(5)
        /\ Table2Count(5) <= Table2Count(1) + Table2Count(2)
                                + Table2Count(3) + Table2Count(4)

\* C14: an observation whose value is at least its athlete's baseline (the
\* median of the athlete's observations of the metric), whatever the sign of
\* the values, carries no flag of the baseline-drop rule of its metric.
C14_AtOrAboveBaselineNeverFlagged ==
    ThresholdsApplied =>
        \A i \in DOMAIN df : \A k \in BaselineRules :
            ( /\ df[i].metric = RuleMetric[k]
              /\ 2 * df[i].value
                    >= TwiceMedian(Obs(df[i].playername, df[i].metric)) )
                => df[i][RuleOrder[k][1]] = 0

\* Every flag_reason made of at most n descriptions, in the order of the
\* rules.
ReasonsOfAtMost(n) ==
    { Join("; ", LET sel == SelectRows(RuleOrder,
                              [k \in DOMAIN RuleOrder |-> k \in S])
                 IN  [k \in DOMAIN sel |-> sel[k][2]]) :
        S \in { T \in SUBSET DOMAIN RuleOrder : Cardinality(T) <= n } }

\* The number of flags observation i of df carries.
FlagCount(i) ==
    Cardinality({ k \in DOMAIN RuleOrder : df[i][RuleOrder[k][1]] = 1 })

\* C15: a flag is set only on observations of its rule's metric, so a Jump
\* Height or Propulsive Net Impulse observation carries at most one flag, an
\* mRSI observation at most the two mRSI flags, and no flag_reason of the
\* report holds more than two descriptions.
C15_FlagsOnlyOnOwnMetric ==
    ThresholdsApplied =>
        /\ \A i \in DOMAIN df :
              /\ \A k \in DOMAIN RuleOrder :
                    df[i][RuleOrder[k][1]] = 1 => df[i].metric = RuleMetric[k]
              /\ df[i].metric \in {METRIC_JH, METRIC_PNI} => FlagCount(i) <= 1
              /\ FlagCount(i) <= 2
        /\ "flagged_out" \in defined =>
              LET allowed == ReasonsOfAtMost(2)
              IN  \A k \in DOMAIN flagged_out :
                      flagged_out[k].flag_reason \in allowed

\* An mRSI observation with both mRSI flags next to a Jump Height observation
\* with its own flag, and a report row whose flag_reason has two
\* descriptions.
C15_Witness ==
    /\ "flagged_out" \in defined
    /\ \E i, j \in DOMAIN df :
          /\ df[i].metric = METRIC_MRSI
          /\ df[i][COL_MRSI_FLAG] = 1 /\ df[i][COL_MRSI_TEAM_FLAG] = 1
          /\ df[j].metric = METRIC_JH
          /\ df[j][COL_JH_FLAG] = 1 /\ FlagCount(j) = 1
    /\ \E k \in DOMAIN flagged_out :
          flagged_out[k].flag_reason = Join("; ", <<ReasonMrsi, ReasonMrsiTeam>>)

\* C16: in the team coverage table, for every team athletes_with_5plus is at
\* most total_athletes and percent_athletes_with_5plus lies between 0 and
\* 100.
C16_CoverageShareWithinBounds ==
    pc = "part2_done" =>
        \A t \in DOMAIN team_coverage :
            LET row == team_coverage[t]
                pct == row.percent_athletes_with_5plus
            IN  /\ row.athletes_with_5plus <= row.total_athletes
                /\ pct[1] >= 0
                /\ pct[1] <= 100 * pct[2]

=============================================================================
